---- MODULE Spec2Model ----
(***************************************************************************)
(* A model of toyweng's markup pipeline: the lexer (src/lexer/mod.rs), the *)
(* DOM constructors (src/dom.rs) and the recursive-descent parser          *)
(* (src/parser/mod.rs).                                                    *)
(*                                                                         *)
(* A &str is a sequence of one-character strings.  The lexer's cursor is   *)
(* the variable lx.  The parser's recursion is an explicit call stack of   *)
(* frames; each action is one step of one parser function.                 *)
(***************************************************************************)
EXTENDS Naturals, Sequences, FiniteSets

VARIABLES
    source,   \* the text handed to Lexer::new
    doc,      \* how source was produced (a description of the input)
    lx,       \* Lexer.source: the unconsumed remainder
    stack,    \* the parser's call stack, innermost frame last
    ret,      \* the value the last returning parser function handed back
    result,   \* what parse returned, once it has
    inTag,    \* history: the last tag-delimiting token taken opened a tag
    last      \* lexer harness: the last operation, its argument and answer,
              \* and the operation before it

vars == <<source, doc, lx, stack, ret, result, inTag, last>>

----------------------------------------------------------------------------
(* Bounds of the model.                                                    *)

MaxLen == 4      \* raw sources: every text of at most this many characters
MaxWidth == 2    \* generated documents: children per element
MaxAttrs == 2    \* generated open tags: attributes per tag

----------------------------------------------------------------------------
(* Characters.  char::is_whitespace, is_alphabetic and is_alphanumeric are *)
(* modelled on the characters the model's sources are written in.          *)

Whitespace == {" ", "\t", "\n"}
Alphabetic == {"a", "b", "c", "d", "x"}
Numeric == {"1"}

is_whitespace(c) == c \in Whitespace
is_alphabetic(c) == c \in Alphabetic
is_alphanumeric(c) == c \in Alphabetic \cup Numeric

\* str::trim_start: the longest suffix that does not begin with whitespace.
RECURSIVE trim_start(_)
trim_start(s) ==
    IF s # <<>> /\ is_whitespace(Head(s)) THEN trim_start(Tail(s)) ELSE s

\* trim_end, were it to trim nothing.
trim_end_none(s) == s

\* str::trim_end: the longest prefix that does not end with whitespace.
RECURSIVE trim_end(_)
trim_end(s) ==
    IF s # <<>> /\ is_whitespace(s[Len(s)])
    THEN trim_end(SubSeq(s, 1, Len(s) - 1))
    ELSE s

\* s.find(c).unwrap_or(s.len()): the count of characters before the first c.
find_char_or_len(s, c) ==
    IF \E i \in 1..Len(s) : s[i] = c
    THEN (CHOOSE i \in 1..Len(s) : s[i] = c /\ \A j \in 1..(i - 1) : s[j] # c) - 1
    ELSE Len(s)

\* The scan of an identifier, were it to stop at the first digit.
find_non_alpha_or_len(s) ==
    IF \E i \in 1..Len(s) : ~is_alphabetic(s[i])
    THEN (CHOOSE i \in 1..Len(s) :
              /\ ~is_alphabetic(s[i])
              /\ \A j \in 1..(i - 1) : is_alphabetic(s[j])) - 1
    ELSE Len(s)

\* s.find(|c| !c.is_alphanumeric()).unwrap_or(s.len())
find_non_alnum_or_len(s) ==
    IF \E i \in 1..Len(s) : ~is_alphanumeric(s[i])
    THEN (CHOOSE i \in 1..Len(s) :
              /\ ~is_alphanumeric(s[i])
              /\ \A j \in 1..(i - 1) : is_alphanumeric(s[j])) - 1
    ELSE Len(s)

----------------------------------------------------------------------------
(* Tokens (src/lexer/token.rs) and results.                                *)

\* A token without payload.
Tok(k) == [kind |-> k, text |-> <<>>]
\* Token::Identifier(s)
Identifier(s) == [kind |-> "Identifier", text |-> s]

OpenTagStart == Tok("OpenTagStart")
CloseTagStart == Tok("CloseTagStart")
TagEnd == Tok("TagEnd")
Quote == Tok("Quote")
Equals == Tok("Equals")
EOF == Tok("EOF")

\* Token::same_type: equal discriminants, payload ignored.
same_type(t, other) == t.kind = other.kind

\* Result::Ok / Result::Err
Ok(v) == [tag |-> "Ok", val |-> v]
Err(e) == [tag |-> "Err", val |-> e]
IsOk(r) == r.tag = "Ok"
IsErr(r) == r.tag = "Err"
\* No value (nothing returned yet).
None == [tag |-> "None"]

\* LexerError::UnknownLexeme(rest)
UnknownLexeme(rest) == [kind |-> "UnknownLexeme", src |-> rest]

----------------------------------------------------------------------------
(* The lexer.  Each operation takes the cursor s and yields the cursor     *)
(* afterwards (lx) and what it returned (out).                             *)

\* cut_front, were it to return the front without moving the cursor.
cut_front_in_place(s, n) == [lx |-> s, out |-> SubSeq(s, 1, n)]

\* Lexer::cut_front
cut_front(s, n) == [lx |-> SubSeq(s, n + 1, Len(s)), out |-> SubSeq(s, 1, n)]

\* Lexer::take_identifier
take_identifier(s) == cut_front(s, find_non_alnum_or_len(s))

\* The token peek classifies at the head of the trimmed cursor t.
classify(t) ==
    IF t = <<>> THEN Ok(EOF)
    ELSE LET ch == t[1] IN
         IF ch = "<" THEN
             IF Len(t) >= 2 /\ t[2] = "/" THEN Ok(CloseTagStart) ELSE Ok(OpenTagStart)
         ELSE IF ch = ">" THEN Ok(TagEnd)
         ELSE IF ch = "\"" THEN Ok(Quote)
         ELSE IF ch = "=" THEN Ok(Equals)
         ELSE IF is_alphabetic(ch) THEN Ok(Identifier(<<>>))
         ELSE Err(UnknownLexeme(t))

\* peek, were it to step past the character it classifies.
peek_advancing(s) ==
    LET t == trim_start(s) IN
    [lx |-> IF t = <<>> THEN t ELSE Tail(t), out |-> classify(t)]

\* peek, were it to classify without trimming first.
peek_untrimmed(s) == [lx |-> s, out |-> classify(s)]

\* Lexer::peek
peek(s) == LET t == trim_start(s) IN [lx |-> t, out |-> classify(t)]

\* Lexer::take
take(s, t) ==
    IF t.kind = "EOF" THEN [lx |-> s, out |-> t]
    ELSE IF t.kind = "Identifier" THEN
        LET c == take_identifier(s) IN [lx |-> c.lx, out |-> Identifier(c.out)]
    ELSE IF t.kind = "CloseTagStart" THEN [lx |-> SubSeq(s, 3, Len(s)), out |-> t]
    ELSE [lx |-> SubSeq(s, 2, Len(s)), out |-> t]

\* Lexer::next
next(s) ==
    LET p == peek(s) IN
    IF IsOk(p.out)
    THEN LET k == take(p.lx, p.out.val) IN [lx |-> k.lx, out |-> Ok(k.out)]
    ELSE p

\* text_till, were it to leave the trailing whitespace on the span.
text_till_untrimmed_end(s, c) ==
    LET t == trim_start(s) IN
    [lx |-> cut_front(t, find_char_or_len(t, c)).lx,
     out |-> cut_front(t, find_char_or_len(t, c)).out]

\* text_till, were it to cut the delimiter off along with the span.
text_till_past_delimiter(s, c) ==
    LET t == trim_start(s)
        n == find_char_or_len(t, c)
    IN [lx |-> cut_front(t, IF n < Len(t) THEN n + 1 ELSE n).lx,
        out |-> trim_end(cut_front(t, n).out)]

\* Lexer::text_till
text_till(s, c) ==
    LET t == trim_start(s)
        cut == cut_front(t, find_char_or_len(t, c))
    IN [lx |-> cut.lx, out |-> trim_end(cut.out)]

\* Lexer::remainder
remainder(s) == s

----------------------------------------------------------------------------
(* The DOM (src/dom.rs).  An AttrMap is a set of name/value entries; the   *)
(* HashMap keeps one entry per key.                                        *)

\* dom::text
text(data) == [children |-> <<>>, node_type |-> [variant |-> "Text", data |-> data]]

\* dom::elem
elem(name, attrs, children) ==
    [children |-> children,
     node_type |-> [variant |-> "Element", tag_name |-> name, attributes |-> attrs]]

\* AttrMap::new
AttrMapNew == {}

\* insert, were it to keep the entry a key already has.
insert_keep_first(m, k, v) ==
    IF \E e \in m : e.name = k THEN m ELSE m \cup {[name |-> k, value |-> v]}

\* HashMap::insert: the entry for k is replaced.
insert(m, k, v) == {e \in m : e.name # k} \cup {[name |-> k, value |-> v]}

----------------------------------------------------------------------------
(* The parser's token discipline (src/parser/mod.rs).                      *)

\* ParseError::LexerError
LexerError(e) == [kind |-> "LexerError", err |-> e]
\* ParseError::UnexpectedToken
UnexpectedToken(expected, got, src) ==
    [kind |-> "UnexpectedToken", expected |-> expected, got |-> got, src |-> src]
\* ParseError::TagMismatch
TagMismatch(opened, closed) ==
    [kind |-> "TagMismatch", opened |-> opened, closed |-> closed]

\* .map_err(|e| ParseError::LexerError(e))
map_err(r) == IF IsErr(r.out) THEN [lx |-> r.lx, out |-> Err(LexerError(r.out.val))] ELSE r

\* Parser::next_token
next_token(s) == map_err(next(s))

\* Parser::peek
parser_peek(s) == map_err(peek(s))

\* Parser::eat
eat(s, expected) ==
    LET src == remainder(s)
        n == next_token(s)
    IN IF IsErr(n.out) THEN n
       ELSE IF same_type(n.out.val, expected) THEN n
       ELSE [lx |-> n.lx, out |-> Err(UnexpectedToken(expected, n.out.val, src))]

\* Parser::eat_ident
eat_ident(s) ==
    LET src == remainder(s)
        n == next_token(s)
    IN IF IsErr(n.out) THEN n
       ELSE IF n.out.val.kind = "Identifier" THEN [lx |-> n.lx, out |-> Ok(n.out.val.text)]
       ELSE [lx |-> n.lx,
             out |-> Err(UnexpectedToken(Identifier(<<>>), n.out.val, src))]

\* The `?` operator inside a parser function that has called none yet: the
\* first Err among the lexer's answers is the function's answer.
Try(r, K(_)) == IF IsErr(r.out) THEN r ELSE K(r)

\* Parser::attribute: out is Ok(<<name, value>>) or the first error.
attribute(s) ==
    Try(eat_ident(s), LAMBDA a :
    Try(parser_peek(a.lx), LAMBDA p :
        IF p.out.val.kind = "Equals" THEN
            Try(eat(p.lx, Equals), LAMBDA e1 :
            Try(eat(e1.lx, Quote), LAMBDA e2 :
                LET v == text_till(e2.lx, "\"") IN
                Try(eat(v.lx, Quote), LAMBDA e3 :
                    [lx |-> e3.lx, out |-> Ok(<<a.out.val, v.out>>)])))
        ELSE [lx |-> p.lx, out |-> Ok(<<a.out.val, <<>>>>)]))

----------------------------------------------------------------------------
(* The parser as a machine.  A machine m is the record of lx, stack, ret,  *)
(* result and inTag; each step operator below is one parser function's     *)
(* code between two calls, and yields the machine afterwards.              *)

\* Every nodes loop that ends has pushed fewer children than the source
\* has characters.  The model follows a Vec up to NsCap children, more than
\* any loop that ends can push, and no further.
NsCap == MaxLen + MaxWidth + 2

\* push, were it to add at the front.
vec_push_front(ns, n) == <<n>> \o ns

\* Vec::push
vec_push(ns, n) == Append(ns, n)

NodeFrame == [fn |-> "node", pc |-> "start"]
ElementFrame ==
    [fn |-> "element", pc |-> "start", tag_name |-> <<>>, attrs |-> AttrMapNew,
     children |-> <<>>, close_tag_name |-> <<>>]
NodesFrame == [fn |-> "nodes", pc |-> "loop", ns |-> <<>>]
AttributesFrame == [fn |-> "attributes", attrs |-> AttrMapNew]

Top(m) == m.stack[Len(m.stack)]
Running(m) == m.stack # <<>>
Popped(m) == SubSeq(m.stack, 1, Len(m.stack) - 1)

\* The top frame replaced by f.
WithTop(m, f) == [m.stack EXCEPT ![Len(m.stack)] = f]

\* The top frame replaced by f, which calls a function whose frame is g.
Call(m, f, g) == Append(WithTop(m, f), g)

\* The running function returns r with the cursor at s.
Return(m, s, r) == [m EXCEPT !.lx = s, !.stack = Popped(m), !.ret = r]

\* The `?` operator on an Err handed back by a callee: return it unchanged.
Propagate(m) == [m EXCEPT !.stack = Popped(m)]

\* The `?` operator on the lexer's answer r: an Err is returned from the
\* running function, anything else goes on to K.
OrReturn(m, r, K(_, _)) == IF IsErr(r.out) THEN Return(m, r.lx, r.out) ELSE K(m, r)

\* Parser { lx }: the parser over source s, about to run node().
new_parser(s) ==
    [lx |-> s, stack |-> <<NodeFrame>>, ret |-> None, result |-> None, inTag |-> FALSE]

\* Parser::node
AtNode(m) == Running(m) /\ Top(m).fn = "node" /\ Top(m).pc = "start"

\* node, were it to hand up the lexer's error (self.peek()?) before the match.
node_strict(m) ==
    OrReturn(m, parser_peek(m.lx), LAMBDA m1, p :
        IF p.out.val.kind = "OpenTagStart"
        THEN [m1 EXCEPT !.lx = p.lx,
                        !.stack = Call(m1, [Top(m1) EXCEPT !.pc = "wait"], ElementFrame)]
        ELSE Return(m1, text_till(p.lx, "<").lx, Ok(text(text_till(p.lx, "<").out))))

\* node, were its text run to end at the next '>' instead of the next '<'.
node_text_till_tag_end(m) ==
    LET p == parser_peek(m.lx) IN
    IF IsOk(p.out) /\ p.out.val.kind = "OpenTagStart"
    THEN [m EXCEPT !.lx = p.lx,
                   !.stack = Call(m, [Top(m) EXCEPT !.pc = "wait"], ElementFrame)]
    ELSE LET t == text_till(p.lx, ">") IN Return(m, t.lx, Ok(text(t.out)))

node(m) ==
    LET p == parser_peek(m.lx) IN
    IF IsOk(p.out) /\ p.out.val.kind = "OpenTagStart"
    THEN [m EXCEPT !.lx = p.lx,
                   !.stack = Call(m, [Top(m) EXCEPT !.pc = "wait"], ElementFrame)]
    ELSE LET t == text_till(p.lx, "<") IN Return(m, t.lx, Ok(text(t.out)))

\* Parser::node, once self.element() has returned: its result is node's.
AtNodeReturn(m) ==
    Running(m) /\ Top(m).fn = "node" /\ Top(m).pc = "wait" /\ m.ret # None
node_return(m) == Propagate(m)

\* Parser::element, up to the call of attributes().
AtElementOpen(m) == Running(m) /\ Top(m).fn = "element" /\ Top(m).pc = "start"
element_open(m) ==
    OrReturn(m, eat(m.lx, OpenTagStart), LAMBDA m1, e1 :
    OrReturn([m1 EXCEPT !.inTag = TRUE], eat_ident(e1.lx), LAMBDA m2, e2 :
        [m2 EXCEPT !.lx = e2.lx,
                   !.stack = Call(m2, [Top(m2) EXCEPT !.pc = "attrs",
                                                      !.tag_name = e2.out.val],
                                  AttributesFrame)]))

\* Parser::attributes: one pass of its loop.
AtAttributes(m) == Running(m) /\ Top(m).fn = "attributes"

\* attributes, were its loop to end at end of input as well as at tag-end.
attributes_until_eof(m) ==
    OrReturn(m, parser_peek(m.lx), LAMBDA m1, p :
        IF p.out.val.kind \in {"TagEnd", "EOF"}
        THEN Return(m1, p.lx, Ok(Top(m1).attrs)) ELSE
        OrReturn(m1, attribute(p.lx), LAMBDA m2, a :
            [m2 EXCEPT !.lx = a.lx,
                       !.stack = WithTop(m2, [Top(m2) EXCEPT
                                     !.attrs = insert(@, a.out.val[1], a.out.val[2])])]))

attributes(m) ==
    OrReturn(m, parser_peek(m.lx), LAMBDA m1, p :
        IF p.out.val.kind = "TagEnd" THEN Return(m1, p.lx, Ok(Top(m1).attrs)) ELSE
        OrReturn(m1, attribute(p.lx), LAMBDA m2, a :
            [m2 EXCEPT !.lx = a.lx,
                       !.stack = WithTop(m2, [Top(m2) EXCEPT
                                     !.attrs = insert(@, a.out.val[1], a.out.val[2])])]))

\* Parser::element, from the return of attributes() to the call of nodes().
AtElementTagEnd(m) ==
    Running(m) /\ Top(m).fn = "element" /\ Top(m).pc = "attrs" /\ m.ret # None
element_tag_end(m) ==
    IF IsErr(m.ret) THEN Propagate(m) ELSE
    OrReturn(m, eat(m.lx, TagEnd), LAMBDA m1, e :
        [m1 EXCEPT !.lx = e.lx, !.inTag = FALSE, !.ret = None,
                   !.stack = Call(m1, [Top(m1) EXCEPT !.pc = "children",
                                                      !.attrs = m1.ret.val],
                                  NodesFrame)])

\* Parser::nodes: the head of its loop, up to the call of node().
AtNodesLoop(m) == Running(m) /\ Top(m).fn = "nodes" /\ Top(m).pc = "loop"
nodes_loop(m) ==
    LET p == parser_peek(m.lx) IN
    IF IsOk(p.out) /\ p.out.val.kind = "CloseTagStart"
    THEN Return(m, p.lx, Ok(Top(m).ns))
    ELSE [m EXCEPT !.lx = p.lx,
                   !.stack = Call(m, [Top(m) EXCEPT !.pc = "push"], NodeFrame)]

\* Parser::nodes: ns.push(self.node()?)
AtNodesPush(m) ==
    /\ Running(m) /\ Top(m).fn = "nodes" /\ Top(m).pc = "push" /\ m.ret # None
    /\ IsOk(m.ret) => Len(Top(m).ns) < NsCap

\* nodes, were it to drop a child that failed and go on with the next.
nodes_push_skip_err(m) ==
    [m EXCEPT !.ret = None,
              !.stack = WithTop(m, [Top(m) EXCEPT
                            !.pc = "loop",
                            !.ns = IF IsOk(m.ret) THEN vec_push(@, m.ret.val) ELSE @])]

nodes_push(m) ==
    IF IsErr(m.ret) THEN Propagate(m) ELSE
    [m EXCEPT !.ret = None,
              !.stack = WithTop(m, [Top(m) EXCEPT !.pc = "loop",
                                                  !.ns = vec_push(@, m.ret.val)])]

\* Parser::element, from the return of nodes() through the closing tag.
AtElementClose(m) ==
    Running(m) /\ Top(m).fn = "element" /\ Top(m).pc = "children" /\ m.ret # None

\* element, were it to compare the names before it eats the closing tag-end.
element_close_compare_first(m) ==
    IF IsErr(m.ret) THEN Propagate(m) ELSE
    OrReturn(m, eat(m.lx, CloseTagStart), LAMBDA m1, e1 :
    OrReturn([m1 EXCEPT !.inTag = TRUE], eat_ident(e1.lx), LAMBDA m2, e2 :
    IF Top(m2).tag_name # e2.out.val
    THEN Return(m2, e2.lx, Err(TagMismatch(Top(m2).tag_name, e2.out.val))) ELSE
    OrReturn(m2, eat(e2.lx, TagEnd), LAMBDA m3, e3 :
        [m3 EXCEPT !.lx = e3.lx, !.inTag = FALSE, !.ret = None,
                   !.stack = WithTop(m3, [Top(m3) EXCEPT !.pc = "cmp",
                                                         !.children = m3.ret.val,
                                                         !.close_tag_name = e2.out.val])])))

element_close(m) ==
    IF IsErr(m.ret) THEN Propagate(m) ELSE
    OrReturn(m, eat(m.lx, CloseTagStart), LAMBDA m1, e1 :
    OrReturn([m1 EXCEPT !.inTag = TRUE], eat_ident(e1.lx), LAMBDA m2, e2 :
    OrReturn(m2, eat(e2.lx, TagEnd), LAMBDA m3, e3 :
        [m3 EXCEPT !.lx = e3.lx, !.inTag = FALSE, !.ret = None,
                   !.stack = WithTop(m3, [Top(m3) EXCEPT !.pc = "cmp",
                                                         !.children = m3.ret.val,
                                                         !.close_tag_name = e2.out.val])])))

\* Parser::element: the comparison of the two tag names.
AtElementCompare(m) == Running(m) /\ Top(m).fn = "element" /\ Top(m).pc = "cmp"

\* element, were it to compare the names by their first characters only.
element_compare_initials(m) ==
    LET f == Top(m) IN
    IF Head(f.tag_name) # Head(f.close_tag_name)
    THEN Return(m, m.lx, Err(TagMismatch(f.tag_name, f.close_tag_name)))
    ELSE Return(m, m.lx, Ok(elem(f.tag_name, f.attrs, f.children)))

element_compare(m) ==
    LET f == Top(m) IN
    IF f.tag_name # f.close_tag_name
    THEN Return(m, m.lx, Err(TagMismatch(f.tag_name, f.close_tag_name)))
    ELSE Return(m, m.lx, Ok(elem(f.tag_name, f.attrs, f.children)))

\* parse: Parser { lx }.node() has returned.
AtParseReturn(m) == ~Running(m) /\ m.ret # None /\ m.result = None

\* parse, were it to ask for the end of input after the node.
parse_return_expect_eof(m) ==
    [m EXCEPT !.result =
        IF IsOk(m.ret) /\ trim_start(m.lx) # <<>>
        THEN Err(UnexpectedToken(EOF, EOF, m.lx))
        ELSE m.ret]

parse_return(m) == [m EXCEPT !.result = m.ret]

\* The step the machine m takes next, if any.
CanStep(m) ==
    \/ AtNode(m) \/ AtNodeReturn(m) \/ AtElementOpen(m) \/ AtAttributes(m)
    \/ AtElementTagEnd(m) \/ AtNodesLoop(m) \/ AtNodesPush(m)
    \/ AtElementClose(m) \/ AtElementCompare(m) \/ AtParseReturn(m)
Step(m) ==
    CASE AtNode(m) -> node(m)
      [] AtNodeReturn(m) -> node_return(m)
      [] AtElementOpen(m) -> element_open(m)
      [] AtAttributes(m) -> attributes(m)
      [] AtElementTagEnd(m) -> element_tag_end(m)
      [] AtNodesLoop(m) -> nodes_loop(m)
      [] AtNodesPush(m) -> nodes_push(m)
      [] AtElementClose(m) -> element_close(m)
      [] AtElementCompare(m) -> element_compare(m)
      [] AtParseReturn(m) -> parse_return(m)

\* The machine m run until no step is left.
RECURSIVE Run(_)
Run(m) == IF CanStep(m) THEN Run(Step(m)) ELSE m

\* parse(Lexer::new(s)): what it returns (None if it does not return).
parse(s) == Run(new_parser(s)).result

----------------------------------------------------------------------------
(* The sources the model parses.                                           *)

\* Every sequence over S of at most n elements.
SeqsUpTo(S, n) == UNION {[1..k -> S] : k \in 0..n}

\* Raw sources: every text over RawChars of at most MaxLen characters.  The
\* '=' character occurs in the hand-written sources and the open-tag documents.
RawChars == {"<", "/", ">", "\"", " ", "a", "1", "$"}
RawSources == SeqsUpTo(RawChars, MaxLen)

\* Generated documents.  A document node is a text run or an element written
\* with an opening name, a closing name, attributes as written and children.
DText(data) == [type |-> "Text", data |-> data]
DElem(open, close, attrs, children) ==
    [type |-> "Element", tag_name |-> open, close_name |-> close,
     attrs |-> attrs, children |-> children]
\* An attribute as written: name, or name="value".
DAttr(name, has_value, value) == [name |-> name, has_value |-> has_value, value |-> value]

RenderAttr(a) ==
    <<" ">> \o a.name \o
    (IF a.has_value THEN <<"=", "\"">> \o a.value \o <<"\"">> ELSE <<>>)

RECURSIVE RenderAttrs(_)
RenderAttrs(as) == IF as = <<>> THEN <<>> ELSE RenderAttr(Head(as)) \o RenderAttrs(Tail(as))

\* The text of document node n, with pn written before every node and pc
\* before every closing tag.
RECURSIVE Render(_, _, _)
RECURSIVE RenderAll(_, _, _)
Render(n, pn, pc) ==
    IF n.type = "Text" THEN pn \o n.data
    ELSE pn \o <<"<">> \o n.tag_name \o RenderAttrs(n.attrs) \o <<">">>
         \o RenderAll(n.children, pn, pc)
         \o pc \o <<"<", "/">> \o n.close_name \o <<">">>
RenderAll(ns, pn, pc) ==
    IF ns = <<>> THEN <<>> ELSE Render(Head(ns), pn, pc) \o RenderAll(Tail(ns), pn, pc)

\* No two text runs side by side (the markup cannot tell them apart).
NoAdjacentText(ns) ==
    \A i \in 1..(Len(ns) - 1) : ~(ns[i].type = "Text" /\ ns[i + 1].type = "Text")

ChildLists(S) == {ns \in SeqsUpTo(S, MaxWidth) : NoAdjacentText(ns)}

DocTexts == {DText(<<"x">>), DText(<<"$", " ", "x">>)}
LeafNames == {<<<<"a">>, <<"a">>>>, <<<<"b">>, <<"b">>>>, <<<<"a">>, <<"b">>>>}
RootNames ==
    {<<<<"a">>, <<"a">>>>, <<<<"b", "1">>, <<"b", "1">>>>, <<<<"b">>, <<"a">>>>,
     <<<<"b", "1">>, <<"b">>>>}

\* Elements without element children.
DocLeaves ==
    {DElem(nm[1], nm[2], <<>>, ch) :
        nm \in LeafNames, ch \in {<<>>, <<DText(<<"x">>)>>}}
\* A root element over text runs and leaf elements, or a lone text run.
DocTrees ==
    {DElem(nm[1], nm[2], <<>>, ch) :
        nm \in RootNames, ch \in ChildLists(DocTexts \cup DocLeaves)}
    \cup DocTexts
\* Three elements nested in one another, each level with its own name.
DocChains ==
    {DElem(<<"a">>, <<"a">>, <<>>,
        <<DElem(<<"b">>, c2, <<>>,
            <<DText(<<"x">>), DElem(<<"c">>, c3, <<>>, <<>>)>>)>>) :
        c2 \in {<<"b">>, <<"d">>}, c3 \in {<<"c">>, <<"d">>}}

Pads == {<<>>, <<" ">>, <<"\n", "\t">>}

\* Open tags with attributes: <a ATTRS></a>.
AttrValues == {<<>>, <<"x">>, <<" ", "x">>, <<"x", " ">>, <<"x", " ", "x">>, <<" ">>}
DocAttrs ==
    {DAttr(n, FALSE, <<>>) : n \in {<<"b">>, <<"c">>}}
    \cup {DAttr(n, TRUE, v) : n \in {<<"b">>, <<"c">>}, v \in AttrValues}
DocTags == {DElem(<<"a">>, <<"a">>, as, <<>>) : as \in SeqsUpTo(DocAttrs, MaxAttrs)}

\* Sources written out by hand.
HandSources ==
    { <<"<", "a", ">", "<", "b", ">", "<", "/", "c", ">", "<", "/", "d", ">">>,
      <<"<", "a", ">", "<", "/", "b">>,
      <<"<", "a", " ", "b", "=", "\"", ">", "\"", " ", "$", ">">>,
      <<"<", "a", " ", "b", "=", "\"", "x">>,
      <<"<", "a", ">", "<", "/", "a", ">", "<", "b", ">", "$">>,
      <<"<", "a", ">", "$", "<", "/", "$", ">">> }

\* Documents whose root's closing tag has lost its '>': the text of the
\* document without its last character, then tl.
CutTails == {<<>>, <<" ">>, <<"<">>}
DocCuts ==
    {[kind |-> "cut", ast |-> t, pn |-> <<>>, pc |-> pc, tl |-> tl] :
        t \in DocLeaves \cup DocChains, pc \in Pads, tl \in CutTails}

\* Documents with more input after the root's closing tag: the text of the
\* document, then tl.
Trailers ==
    { <<>>, <<" ">>, <<"x">>, <<"$", ">">>, <<"<", "b", ">">>, <<"<", "/", "a", ">">>,
      <<" ", "<", "a", ">", "<", "/", "a", ">">>, <<"<", "a", " ", "=">> }
DocTrails ==
    {[kind |-> "trail", ast |-> t, pn |-> pn, pc |-> pc, tl |-> tl] :
        t \in DocLeaves \cup DocChains, pn \in Pads, pc \in Pads, tl \in Trailers}

Inputs ==
    {[kind |-> "raw", src |-> s] : s \in RawSources \cup HandSources}
    \cup {[kind |-> "tree", ast |-> t, pn |-> pn, pc |-> pc] :
             t \in DocTrees \cup DocChains, pn \in Pads, pc \in Pads}
    \cup {[kind |-> "tag", ast |-> t, pn |-> <<>>, pc |-> <<>>] : t \in DocTags}
    \cup DocCuts
    \cup DocTrails

SourceOf(d) ==
    CASE d.kind = "raw" -> d.src
      [] d.kind \in {"tree", "tag"} -> Render(d.ast, d.pn, d.pc)
      [] d.kind = "cut" ->
            SubSeq(Render(d.ast, d.pn, d.pc), 1, Len(Render(d.ast, d.pn, d.pc)) - 1) \o d.tl
      [] d.kind = "trail" -> Render(d.ast, d.pn, d.pc) \o d.tl

----------------------------------------------------------------------------
(* parse(Lexer::new(source)), one step of one parser function at a time.   *)

NoOp == [op |-> "none", arg |-> "", out |-> None, prev |-> "none"]

Init ==
    /\ doc \in Inputs
    /\ source = SourceOf(doc)
    /\ lx = source
    /\ stack = <<NodeFrame>>
    /\ ret = None
    /\ result = None
    /\ inTag = FALSE
    /\ last = NoOp

\* The machine the variables hold.
Cur == [lx |-> lx, stack |-> stack, ret |-> ret, result |-> result, inTag |-> inTag]

Becomes(m) ==
    /\ lx' = m.lx
    /\ stack' = m.stack
    /\ ret' = m.ret
    /\ result' = m.result
    /\ inTag' = m.inTag
    /\ UNCHANGED <<source, doc, last>>

Node == AtNode(Cur) /\ Becomes(node(Cur))
NodeReturn == AtNodeReturn(Cur) /\ Becomes(node_return(Cur))
ElementOpen == AtElementOpen(Cur) /\ Becomes(element_open(Cur))
Attributes == AtAttributes(Cur) /\ Becomes(attributes(Cur))
ElementTagEnd == AtElementTagEnd(Cur) /\ Becomes(element_tag_end(Cur))
NodesLoop == AtNodesLoop(Cur) /\ Becomes(nodes_loop(Cur))
NodesPush == AtNodesPush(Cur) /\ Becomes(nodes_push(Cur))
ElementClose == AtElementClose(Cur) /\ Becomes(element_close(Cur))
ElementCompare == AtElementCompare(Cur) /\ Becomes(element_compare(Cur))
ParseReturn == AtParseReturn(Cur) /\ Becomes(parse_return(Cur))

Next ==
    \/ Node
    \/ NodeReturn
    \/ ElementOpen
    \/ Attributes
    \/ ElementTagEnd
    \/ NodesLoop
    \/ NodesPush
    \/ ElementClose
    \/ ElementCompare
    \/ ParseReturn

Spec == Init /\ [][Next]_vars

Done == result # None

\* A step of parse is left to take (ENABLED Next, by the actions' guards).
CanRun == CanStep(Cur)

----------------------------------------------------------------------------
(* The lexer on its own: any sequence of peek, take after peek, next and   *)
(* text_till on a Lexer over a raw or hand-written source.                 *)

LexInit ==
    /\ doc \in {[kind |-> "raw", src |-> s] : s \in RawSources \cup HandSources}
    /\ source = doc.src
    /\ lx = source
    /\ stack = <<>>
    /\ ret = None
    /\ result = None
    /\ inTag = FALSE
    /\ last = NoOp

LexFrame == UNCHANGED <<source, doc, stack, ret, result, inTag>>

LexPeek ==
    /\ lx' = peek(lx).lx
    /\ last' = [op |-> "peek", arg |-> "", out |-> peek(lx).out, prev |-> last.op]
    /\ LexFrame
\* take(t) is called with the token the peek just before it returned.
LexTake ==
    /\ last.op = "peek"
    /\ IsOk(last.out)
    /\ lx' = take(lx, last.out.val).lx
    /\ last' = [op |-> "take", arg |-> "", out |-> Ok(take(lx, last.out.val).out), prev |-> last.op]
    /\ LexFrame
LexNext ==
    /\ lx' = next(lx).lx
    /\ last' = [op |-> "next", arg |-> "", out |-> next(lx).out, prev |-> last.op]
    /\ LexFrame
LexTextTill ==
    \E c \in {"<", "\""} :
        /\ lx' = text_till(lx, c).lx
        /\ last' = [op |-> "text_till", arg |-> c, out |-> text_till(lx, c).out, prev |-> last.op]
        /\ LexFrame

LexStep ==
    \/ LexPeek
    \/ LexTake
    \/ LexNext
    \/ LexTextTill

LexSpec == LexInit /\ [][LexStep]_vars

----------------------------------------------------------------------------
(* What the claims speak of.                                               *)

\* v without its leading and trailing whitespace.
Stripped(v) ==
    LET keep == {i \in 1..Len(v) : ~is_whitespace(v[i])} IN
    IF keep = {} THEN <<>>
    ELSE SubSeq(v, CHOOSE i \in keep : \A j \in keep : i <= j,
                   CHOOSE i \in keep : \A j \in keep : j <= i)

\* The attribute map an open tag's attributes, as written, stand for.
WrittenValue(a) == IF a.has_value THEN Stripped(a.value) ELSE <<>>
LastWritten(as, n) ==
    as[CHOOSE i \in 1..Len(as) :
          as[i].name = n /\ \A j \in (i + 1)..Len(as) : as[j].name # n]
WrittenAttrs(as) ==
    {[name |-> as[i].name, value |-> WrittenValue(LastWritten(as, as[i].name))] :
        i \in 1..Len(as)}

\* The tree a document node stands for.
RECURSIVE ToNode(_)
ToNode(n) ==
    IF n.type = "Text" THEN text(n.data)
    ELSE elem(n.tag_name, WrittenAttrs(n.attrs),
              [i \in 1..Len(n.children) |-> ToNode(n.children[i])])

\* Every element of the document closes with the name it opened with.
RECURSIVE Balanced(_)
Balanced(n) ==
    n.type = "Element" =>
        /\ n.tag_name = n.close_name
        /\ \A i \in 1..Len(n.children) : Balanced(n.children[i])

\* The names of the first element, in document order of the closing tags,
\* that closes with another name than it opened with; <<>> if there is none.
RECURSIVE FirstMismatch(_)
FirstMismatch(n) ==
    IF n.type = "Text" THEN <<>>
    ELSE LET bad == {i \in 1..Len(n.children) : FirstMismatch(n.children[i]) # <<>>} IN
         IF bad # {}
         THEN FirstMismatch(n.children[CHOOSE i \in bad : \A j \in bad : i <= j])
         ELSE IF n.tag_name # n.close_name THEN <<n.tag_name, n.close_name>>
         ELSE <<>>

IsTree == doc.kind = "tree"
IsTag == doc.kind = "tag"

ErrKinds == {"LexerError", "UnexpectedToken", "TagMismatch"}
Failed(kind) == Done /\ IsErr(result) /\ result.val.kind = kind

----------------------------------------------------------------------------
(* C1.  For every finite source parse terminates, returning Ok(tree) or    *)
(* one of LexerError, UnexpectedToken, TagMismatch; also when the input    *)
(* ends while an element is open.  Stated on the model: until parse has    *)
(* returned a step is left to take, and what it returns is Ok or one of    *)
(* the three errors.  The model leaves no step only where nodes holds      *)
(* NsCap children, more than a loop that ends can push.                    *)
C1_ParseTerminates ==
    /\ Done \/ CanRun
    /\ Done => \/ IsOk(result)
               \/ IsErr(result) /\ result.val.kind \in ErrKinds

----------------------------------------------------------------------------
(* C2.  The input ends inside an open tag right after the tag name.        *)

\* s is `<`, a name and nothing more (whitespace around it aside).
EndsAfterTagName(s) ==
    LET t == Stripped(s) IN
    /\ Len(t) >= 2
    /\ t[1] = "<"
    /\ is_alphabetic(t[2])
    /\ \A i \in 3..Len(t) : is_alphanumeric(t[i])

\* C2 as claimed: parse fails with UnexpectedToken, expected of tag-end
\* kind, got EOF.
C2_ExpectedTagEnd ==
    (Done /\ EndsAfterTagName(source)) =>
        /\ Failed("UnexpectedToken")
        /\ result.val.expected.kind = "TagEnd"
        /\ result.val.got.kind = "EOF"

\* C2 as amended: parse fails with UnexpectedToken, expected of identifier
\* kind (the attribute loop asks for an attribute name), got EOF.
C2_ExpectedIdentifier ==
    (Done /\ EndsAfterTagName(source)) =>
        /\ Failed("UnexpectedToken")
        /\ result.val.expected.kind = "Identifier"
        /\ result.val.got.kind = "EOF"

C2_Witness ==
    /\ source = <<"<", "a">>
    /\ Done
    /\ result = Err(UnexpectedToken(Identifier(<<>>), EOF, <<>>))

----------------------------------------------------------------------------
(* C3.  A document whose root element opens and closes completely, over   *)
(* children that parse, fails with TagMismatch(opened, closed) when the    *)
(* closing name is not exactly the opening name, and with no TagMismatch   *)
(* when it is.                                                             *)

ChildrenBalanced(n) == \A i \in 1..Len(n.children) : Balanced(n.children[i])
RootCloses == IsTree /\ doc.ast.type = "Element" /\ ChildrenBalanced(doc.ast)

C3_TagMismatch ==
    (Done /\ RootCloses) =>
        IF doc.ast.tag_name # doc.ast.close_name
        THEN result = Err(TagMismatch(doc.ast.tag_name, doc.ast.close_name))
        ELSE IsOk(result)

C3_Witness ==
    /\ Done
    /\ RootCloses
    /\ doc.ast.tag_name = <<"b", "1">>
    /\ doc.ast.close_name = <<"b">>
    /\ doc.ast.children # <<>>
    /\ result = Err(TagMismatch(<<"b", "1">>, <<"b">>))

----------------------------------------------------------------------------
(* C4.  parse is fail-fast.  Once a parser function has returned an error  *)
(* the lexer is not used again and the error is handed up unchanged to be  *)
(* parse's result; of several mismatched elements the first to close is    *)
(* the one reported.                                                       *)

NestedMismatch == <<"<", "a", ">", "<", "b", ">", "<", "/", "c", ">", "<", "/", "d", ">">>

C4_FailFast ==
    /\ [][IsErr(ret) => /\ lx' = lx
                        /\ ret' = ret
                        /\ result' \in {result, ret}]_vars
    /\ [](Done => /\ IsErr(ret) => result = ret
                  /\ (IsTree /\ FirstMismatch(doc.ast) # <<>>) =>
                        result = Err(TagMismatch(FirstMismatch(doc.ast)[1],
                                                 FirstMismatch(doc.ast)[2]))
                  /\ source = NestedMismatch =>
                        result = Err(TagMismatch(<<"b">>, <<"c">>)))

\* Two mismatched elements, one in the other: the inner one is reported.
C4_Witness ==
    /\ Done
    /\ IsTree
    /\ doc.ast.type = "Element"
    /\ doc.ast.tag_name # doc.ast.close_name
    /\ ~ChildrenBalanced(doc.ast)
    /\ result = Err(TagMismatch(<<"a">>, <<"b">>))

----------------------------------------------------------------------------
(* C5.  A well-formed document (one root element, every element closed by  *)
(* its own name) parses: parse is not left without a step before it        *)
(* returns, and it returns the document's tree, every element's children   *)
(* its child elements and text runs in document order.                     *)

WellFormed == IsTree /\ doc.ast.type = "Element" /\ Balanced(doc.ast)

C5_TreeInOrder ==
    WellFormed =>
        /\ Done \/ CanRun
        /\ Done => result = Ok(ToNode(doc.ast))

\* A root with two different element children, and three levels of nesting.
C5_Witness ==
    /\ Done
    /\ WellFormed
    /\ IsOk(result)
    /\ \/ /\ Len(result.val.children) = 2
          /\ result.val.children[1].node_type.variant = "Element"
          /\ result.val.children[2].node_type.variant = "Element"
          /\ result.val.children[1] # result.val.children[2]
          /\ result.val.children[1].children # <<>>

----------------------------------------------------------------------------
(* C6.  Whitespace insensitivity.  Where a document parses, the document   *)
(* with whitespace written before every node (the root tag, a tag after a  *)
(* tag, a tag or a text run after the other) and before every closing tag  *)
(* parses to the same tree, and no Text node of that tree is empty.        *)

Unpadded == Render(doc.ast, <<>>, <<>>)

RECURSIVE HasEmptyText(_)
HasEmptyText(n) ==
    \/ n.node_type.variant = "Text" /\ n.node_type.data = <<>>
    \/ \E i \in 1..Len(n.children) : HasEmptyText(n.children[i])

C6_WhitespaceInsensitive ==
    (Done /\ IsTree /\ IsOk(parse(Unpadded))) =>
        /\ result = parse(Unpadded)
        /\ ~HasEmptyText(result.val)

C6_Witness ==
    /\ Done
    /\ IsTree
    /\ doc.pn = <<"\n", "\t">>
    /\ doc.pc = <<" ">>
    /\ source # Unpadded
    /\ IsOk(result)
    /\ result = parse(Unpadded)
    /\ Len(result.val.children) = 2
    /\ result.val.children[1].node_type.variant = "Text"
    /\ result.val.children[2].node_type.variant = "Element"

----------------------------------------------------------------------------
(* C7.  Attribute map semantics.  The map of an open tag holds one entry   *)
(* for each distinct attribute name written; a name written more than      *)
(* once maps to the value of its last occurrence, a name written without   *)
(* `=` to the empty string.                                                *)

WrittenNames == {doc.ast.attrs[i].name : i \in 1..Len(doc.ast.attrs)}

C7_AttributeMap ==
    (Done /\ IsTag) =>
        /\ IsOk(result)
        /\ LET m == result.val.node_type.attributes IN
           /\ {e.name : e \in m} = WrittenNames
           /\ Cardinality(m) = Cardinality(WrittenNames)
           /\ \A e \in m :
                 e.value = WrittenValue(LastWritten(doc.ast.attrs, e.name))

\* A name written twice, with a value and then without.
C7_Witness ==
    /\ Done
    /\ IsTag
    /\ doc.ast.attrs = <<DAttr(<<"b">>, TRUE, <<"x">>), DAttr(<<"b">>, FALSE, <<>>)>>
    /\ IsOk(result)
    /\ result.val.node_type.attributes = {[name |-> <<"b">>, value |-> <<>>]}

----------------------------------------------------------------------------
(* C8.  The value stored for name="value".                                 *)

OneValued == IsTag /\ Len(doc.ast.attrs) = 1 /\ doc.ast.attrs[1].has_value

\* C8 as claimed: the stored value is the characters between the quotes,
\* verbatim, also when they begin or end with a space.
C8_ValueVerbatim ==
    (Done /\ OneValued) =>
        /\ IsOk(result)
        /\ result.val.node_type.attributes =
               {[name |-> doc.ast.attrs[1].name, value |-> doc.ast.attrs[1].value]}

\* C8 as amended: the stored value is the characters between the quotes
\* without their leading and trailing whitespace; the spaces between its
\* first and last other characters are kept.
C8_ValueTrimmed ==
    (Done /\ OneValued) =>
        /\ IsOk(result)
        /\ result.val.node_type.attributes =
               {[name |-> doc.ast.attrs[1].name,
                 value |-> Stripped(doc.ast.attrs[1].value)]}

C8_Witness ==
    /\ Done
    /\ OneValued
    /\ doc.ast.attrs[1].value = <<"x", " ">>
    /\ IsOk(result)
    /\ result.val.node_type.attributes = {[name |-> doc.ast.attrs[1].name, value |-> <<"x">>]}

----------------------------------------------------------------------------
(* C9.  parse fails with LexerError only inside a tag: after an            *)
(* open-tag-start or close-tag-start was taken and before that tag's       *)
(* tag-end was.  A character the lexer cannot classify, met where node     *)
(* chooses between element and text, becomes the start of a Text node.     *)

C9_LexerErrorInsideTag ==
    /\ []((IsErr(ret) /\ ret.val.kind = "LexerError") => inTag)
    /\ []((Done /\ Failed("LexerError")) => inTag)
    /\ [][(AtNode(Cur) /\ IsErr(peek(lx).out)) =>
             /\ IsOk(ret')
             /\ ret'.val.node_type.variant = "Text"
             /\ Head(ret'.val.node_type.data) = Head(Stripped(lx))]_vars

\* `$` between the tags became text; `$` in the closing tag is the error.
C9_Witness ==
    /\ source = <<"<", "a", ">", "$", "<", "/", "$", ">">>
    /\ Done
    /\ inTag
    /\ result = Err(LexerError(UnknownLexeme(<<"$", ">">>)))

----------------------------------------------------------------------------
(* C10.  peek is idempotent: a peek right after a peek answers the same    *)
(* and leaves the cursor where it was; a peek removes leading whitespace   *)
(* only, and the token it reports is still at the head of the cursor.      *)

\* after is before without some leading whitespace.
OnlyWhitespaceCut(before, after) ==
    \E k \in 0..Len(before) :
        /\ after = SubSeq(before, k + 1, Len(before))
        /\ \A i \in 1..k : is_whitespace(before[i])

\* The characters token kind k stands for are at the head of s.
AtHead(k, s) ==
    CASE k = "EOF" -> s = <<>>
      [] k = "OpenTagStart" -> s # <<>> /\ s[1] = "<"
      [] k = "CloseTagStart" -> Len(s) >= 2 /\ s[1] = "<" /\ s[2] = "/"
      [] k = "TagEnd" -> s # <<>> /\ s[1] = ">"
      [] k = "Quote" -> s # <<>> /\ s[1] = "\""
      [] k = "Equals" -> s # <<>> /\ s[1] = "="
      [] k = "Identifier" -> s # <<>> /\ is_alphabetic(s[1])

C10_PeekIdempotent ==
    /\ [][(last.op = "peek" /\ last'.op = "peek") =>
             /\ last'.out = last.out
             /\ lx' = lx]_vars
    /\ [][last'.op = "peek" =>
             /\ OnlyWhitespaceCut(lx, lx')
             /\ IF IsOk(last'.out)
                THEN AtHead(last'.out.val.kind, lx')
                ELSE last'.out.val.src = lx']_vars

\* A peek after a peek, on a cursor the first peek trimmed.
C10_Witness ==
    /\ last.op = "peek"
    /\ last.prev = "peek"
    /\ lx # source
    /\ Len(lx) >= 2
    /\ last.out = Ok(Identifier(<<>>))

-----------------------------------------------------------------------------
(* C11.  After any sequence of peek, next, take-after-peek and text_till   *)
(* the lexer's remainder is a suffix of the original source, no operation  *)
(* makes the remainder grow or move backwards (the remainder after is a    *)
(* suffix of the remainder before), and every next() that returns a token  *)
(* other than EOF leaves a strictly shorter remainder.                     *)

IsSuffix(t, s) == Len(t) <= Len(s) /\ t = SubSeq(s, Len(s) - Len(t) + 1, Len(s))

NextGaveToken(l) == l.op = "next" /\ IsOk(l.out) /\ l.out.val.kind # "EOF"

C11_CursorMonotonic ==
    /\ [](IsSuffix(remainder(lx), source))
    /\ [][IsSuffix(remainder(lx'), remainder(lx))]_vars
    /\ [][NextGaveToken(last') => Len(remainder(lx')) < Len(remainder(lx))]_vars

\* A next() has returned an identifier from the middle of the source, after
\* an earlier next() moved the cursor.
C11_Witness ==
    /\ NextGaveToken(last)
    /\ last.prev = "next"
    /\ last.out.val.kind = "Identifier"
    /\ Len(lx) >= 1
    /\ Len(lx) + Len(last.out.val.text) < Len(source)

-----------------------------------------------------------------------------
(* C12.  At end of input (the remainder is empty or whitespace only)       *)
(* peek() and next() return Ok(EOF), never an error, and consume nothing:  *)
(* the remainder afterwards is the remainder before with its whitespace    *)
(* trimmed, and take(EOF) leaves the remainder as it is.  EOF is           *)
(* absorbing: a next() that returns EOF leaves the lexer at end of input,  *)
(* no operation leaves end of input, and so every later next() returns     *)
(* EOF as well.                                                            *)

AtEndOfInput(s) == trim_start(s) = <<>>

C12_EofAbsorbing ==
    /\ [][(AtEndOfInput(lx) /\ last'.op \in {"peek", "next"}) =>
             /\ last'.out = Ok(EOF)
             /\ lx' = trim_start(lx)]_vars
    /\ [][(last'.op = "take" /\ last'.out = Ok(EOF)) => lx' = lx]_vars
    /\ [](((last.op = "next" /\ last.out = Ok(EOF)) => AtEndOfInput(lx)))
    /\ [][AtEndOfInput(lx) => AtEndOfInput(lx')]_vars

\* A next() after a next() has returned EOF on a source that holds a token
\* followed by whitespace.
C12_Witness ==
    /\ last.op = "next"
    /\ last.prev = "next"
    /\ last.out = Ok(EOF)
    /\ lx = <<>>
    /\ Len(source) >= 2
    /\ ~is_whitespace(source[1])
    /\ is_whitespace(source[Len(source)])

-----------------------------------------------------------------------------
(* C13.  text_till(c) returns the span of the whitespace-trimmed remainder *)
(* up to, and not including, the first occurrence of c (up to the end of   *)
(* input if c is absent), with trailing whitespace trimmed.  It never      *)
(* consumes the delimiter: afterwards the remainder is empty or begins     *)
(* with c, and the token a peek would read next starts with the delimiter. *)

\* The characters of s before the first c, all of s when c is absent.
SpanBefore(s, c) ==
    IF \E i \in 1..Len(s) : s[i] = c
    THEN LET i == CHOOSE i \in 1..Len(s) : s[i] = c /\ \A j \in 1..(i - 1) : s[j] # c
         IN SubSeq(s, 1, i - 1)
    ELSE s

\* The kinds of token that start with character c.
KindsStarting(c) ==
    IF c = "<" THEN {"OpenTagStart", "CloseTagStart"}
    ELSE IF c = "\"" THEN {"Quote"}
    ELSE {}

C13_TextTillKeepsDelimiter ==
    [][last'.op = "text_till" =>
          LET t == trim_start(lx)
              span == SpanBefore(t, last'.arg)
          IN /\ last'.out = trim_end(span)
             /\ span \o lx' = t
             /\ lx' = <<>> \/ lx'[1] = last'.arg
             /\ lx' # <<>> => /\ IsOk(peek(lx').out)
                              /\ peek(lx').out.val.kind \in KindsStarting(last'.arg)]_vars

\* A text_till has returned a span it trimmed at both ends and stopped in
\* front of its delimiter.
C13_Witness ==
    /\ last.op = "text_till"
    /\ lx # <<>>
    /\ lx[1] = last.arg
    /\ last.out # <<>>
    /\ Len(last.out) + Len(lx) + 2 <= Len(source)
    /\ is_whitespace(source[1])

-----------------------------------------------------------------------------
(* C14.  next() advances the cursor, after trimming leading whitespace, by *)
(* exactly the width of the token it returns: two characters for           *)
(* close-tag-start, one for open-tag-start, tag-end, quote and equals,     *)
(* zero for EOF, and for an identifier the length of the maximal run of    *)
(* alphanumeric characters at the cursor; that run is the identifier's     *)
(* payload, which is non-empty and begins with an alphabetic character.    *)

\* The length of the longest prefix of s made of alphanumeric characters.
AlnumRunLen(s) ==
    CHOOSE n \in 0..Len(s) :
        /\ \A i \in 1..n : is_alphanumeric(s[i])
        /\ n = Len(s) \/ ~is_alphanumeric(s[n + 1])

\* The characters token tok takes when it is read at the head of t.
Width(tok, t) ==
    CASE tok.kind = "CloseTagStart" -> 2
      [] tok.kind \in {"OpenTagStart", "TagEnd", "Quote", "Equals"} -> 1
      [] tok.kind = "EOF" -> 0
      [] tok.kind = "Identifier" -> AlnumRunLen(t)

C14_NextAdvancesByWidth ==
    [][(last'.op = "next" /\ IsOk(last'.out)) =>
          LET t == trim_start(lx)
              tok == last'.out.val
              w == Width(tok, t)
          IN /\ w <= Len(t)
             /\ lx' = SubSeq(t, w + 1, Len(t))
             /\ tok.kind = "Identifier" =>
                    /\ tok.text = SubSeq(t, 1, w)
                    /\ tok.text # <<>>
                    /\ is_alphabetic(tok.text[1])
             /\ tok.kind # "Identifier" => tok.text = <<>>]_vars

\* A next() has skipped whitespace and returned an identifier that holds a
\* digit, stopping in front of the character that ends the run.
C14_Witness ==
    /\ last.op = "next"
    /\ last.out = Ok(Identifier(<<"a", "1">>))
    /\ lx # <<>>
    /\ is_whitespace(source[1])

-----------------------------------------------------------------------------
(* C15.  The children loop (nodes) stops as soon as the peeked token is    *)
(* close-tag-start or end-of-file: with the lexer at end of input the head *)
(* of the loop never calls node(), so no child is appended without the     *)
(* cursor having advanced.  The code leaves the loop on close-tag-start    *)
(* only; TLC refutes the statement.                                        *)

\* The step is nodes calling node(): a node frame goes on top of nodes' own.
NodesCallsNode ==
    /\ AtNodesLoop(Cur)
    /\ Len(stack') = Len(stack) + 1
    /\ stack'[Len(stack')].fn = "node"

C15_NodesStopsAtEof == [][NodesCallsNode => ~AtEndOfInput(lx)]_vars

-----------------------------------------------------------------------------
(* C16.  TagMismatch is raised only after close-tag-start, the closing     *)
(* identifier and the closing tag-end have all been consumed.  Whenever a  *)
(* parser function returns TagMismatch, and so whenever parse does, the    *)
(* consumed part of the source ends with the mismatched close tag, its '>' *)
(* included.  A close tag with a wrong name that lacks its '>' yields      *)
(* UnexpectedToken with expected tag-end (got EOF when the input ends      *)
(* there), not TagMismatch.                                                *)

\* What the lexer has consumed of the source when its remainder is s.
Consumed(s) == SubSeq(source, 1, Len(source) - Len(s))

\* t ends with a complete close tag for name: "</", name, ">", whitespace
\* allowed around the name.
EndsWithCloseTag(t, name) ==
    \E i \in 1..(Len(t) - 2) :
        /\ t[i] = "<"
        /\ t[i + 1] = "/"
        /\ t[Len(t)] = ">"
        /\ Stripped(SubSeq(t, i + 2, Len(t) - 1)) = name

IsTagMismatch(r) == IsErr(r) /\ r.val.kind = "TagMismatch"

IsCut == doc.kind = "cut"
MissingTagEnd == <<"<", "a", ">", "<", "/", "b">>

C16_MismatchAfterCloseTag ==
    /\ IsTagMismatch(ret) =>
          /\ IsSuffix(lx, source)
          /\ EndsWithCloseTag(Consumed(lx), ret.val.closed)
    /\ (Done /\ IsTagMismatch(result)) =>
          EndsWithCloseTag(Consumed(lx), result.val.closed)
    /\ (Done /\ IsCut /\ ChildrenBalanced(doc.ast)) =>
          /\ Failed("UnexpectedToken")
          /\ result.val.expected.kind = "TagEnd"
          /\ AtEndOfInput(doc.tl) => result.val.got.kind = "EOF"
    /\ (Done /\ source = MissingTagEnd) =>
          result = Err(UnexpectedToken(TagEnd, EOF, <<>>))

\* A document whose root closes with another name and without '>', at the
\* end of input, has been refused for the missing tag-end.
C16_Witness ==
    /\ Done
    /\ IsCut
    /\ doc.tl = <<>>
    /\ doc.ast.tag_name # doc.ast.close_name
    /\ doc.ast.children # <<>>
    /\ Failed("UnexpectedToken")
    /\ result.val.expected = TagEnd
    /\ result.val.got = EOF

-----------------------------------------------------------------------------
(* C17.  parse builds exactly one top-level node and returns without       *)
(* examining the rest of the input.  For a source D followed by T, where D *)
(* is a complete element that parses successfully, parse returns, its      *)
(* result is parse(D) whatever T is (malformed, or further elements), and  *)
(* the lexer remainder at return is T, unconsumed.                         *)

IsTrail == doc.kind = "trail"

\* The document D of a source D followed by T.
TrailDoc == Render(doc.ast, doc.pn, doc.pc)

C17_OneTopLevelNode ==
    (IsTrail /\ IsOk(parse(TrailDoc))) =>
        /\ Done \/ CanRun
        /\ Done => /\ result = parse(TrailDoc)
                   /\ result = Ok(ToNode(doc.ast))
                   /\ remainder(lx) = doc.tl

\* parse has returned the tree of a nested document and left a second
\* element after it unread.
C17_Witness ==
    /\ Done
    /\ IsTrail
    /\ doc.ast.children # <<>>
    /\ doc.ast.children[1].type = "Element"
    /\ doc.tl = <<" ", "<", "a", ">", "<", "/", "a", ">">>
    /\ IsOk(result)
    /\ lx = doc.tl

-----------------------------------------------------------------------------
(* C18.  If the first token of the source is not open-tag-start (the       *)
(* source is empty or whitespace only, starts with a close tag "</", with  *)
(* an unclassifiable character, or with any other token), parse never      *)
(* fails: it returns Ok with a single childless Text node holding the      *)
(* trimmed run up to the first '<', which is the empty string when the     *)
(* source is empty or begins with '<'.                                     *)

\* The source, leading whitespace aside, does not start with '<' other
\* than as the first character of "</".
FirstNotOpenTag(s) ==
    LET t == trim_start(s) IN
    \/ t = <<>>
    \/ t[1] # "<"
    \/ Len(t) >= 2 /\ t[2] = "/"

C18_TextNeverFails ==
    FirstNotOpenTag(source) =>
        /\ Done \/ CanRun
        /\ Done =>
             LET t == trim_start(source) IN
             /\ result = Ok(text(trim_end(SpanBefore(t, "<"))))
             /\ result.val.children = <<>>
             /\ result.val.node_type.variant = "Text"
             /\ (t = <<>> \/ t[1] = "<") => result.val.node_type.data = <<>>

\* parse has returned a text run that starts with an unclassifiable
\* character and ends in front of a '<'.
C18_Witness ==
    /\ Done
    /\ Len(source) >= 3
    /\ source[1] = " "
    /\ source[2] = "$"
    /\ source[Len(source)] = "<"
    /\ IsOk(result)
    /\ result.val.node_type.data # <<>>
    /\ lx = <<"<">>

====
